---- MODULE Spec2Model ----
(***************************************************************************)
(* ObjectTracker (services/tracker): greedy IoU association with a linear  *)
(* velocity predictor.                                                     *)
(*                                                                         *)
(* Numbers.  Coordinates and velocities are JavaScript doubles.  Every box *)
(* the model feeds in has integer pixel coordinates and the only division  *)
(* applied to a coordinate is the halving of the velocity smoothing, so    *)
(* every coordinate is a dyadic rational: it is held as an integer count   *)
(* of 1/Scale pixels, which is exact as long as no track is smoothed more  *)
(* than MaxCalls times.  An IoU is held as the exact fraction <<num, den>>.*)
(*                                                                         *)
(* Objects.  A bbox is a mutable array that a detection record and the     *)
(* tracks made from it share: heap maps an address to the array's content  *)
(* and a record's bbox field is an address.                                *)
(***************************************************************************)
EXTENDS Integers, Sequences, FiniteSets, TLC

\* ------------------------------------------------------------- bounds
\* calls (update or reset) made on one tracker in one behaviour
MaxCalls == 4
\* largest maxMissingFrames a tracker is constructed with
MaxMissingCfg == 2
\* calls of calculateIoU made on one pair of boxes
MaxMeasures == 2
\* video sources the detection screen is given in one behaviour
MaxSources == 2
\* detectFrame invocations awaiting model.detect at one time
MaxInflight == 2

Scale == 2 ^ MaxCalls
Px(n) == n * Scale

\* ---------------------------------------------------- program constants
\* constructor default iouThreshold = 0.25
iouThreshold == <<1, 4>>
\* const alpha = 0.5
alpha == <<1, 2>>
colors == <<"#00f0ff", "#ff2a6d", "#05d5fa", "#39ff14", "#ffe600", "#bd00ff">>

\* --------------------------------------------------------------- inputs
\* Math.random() outcomes (hundredths) that the model draws from: both in
\* the specifications that compare two trackers, the first alone in the others
RandomDraws == {10, 95}
OneDraw == {10}
ToUnits(b) == <<Px(b[1]), Px(b[2]), Px(b[3]), Px(b[4])>>
\* a detection as the detector hands it over: bbox [x, y, width, height] in
\* pixels, class, score (percent)
Det(b, c, s) == [bbox |-> ToUnits(b), class |-> c, score |-> s]
\* the detections the model feeds in: the first two overlap (IoU 3/5), the
\* third is far from both (IoU 0)
DetNear == Det(<<10, 10, 20, 20>>, "person", 90)
DetMoved == Det(<<15, 10, 20, 20>>, "car", 80)
DetFar == Det(<<60, 40, 10, 10>>, "car", 90)
\* the detection lists of one frame, for a tracker used alone
DetectionLists ==
    { <<>>, <<DetNear>>, <<DetMoved>>, <<DetFar>>,
      <<DetNear, DetMoved>>, <<DetMoved, DetNear>>,
      <<DetNear, DetNear>>, <<DetNear, DetFar>> }
\* the lists fed to two trackers in step
PairLists == { <<>>, <<DetNear>>, <<DetMoved>>, <<DetNear, DetMoved>> }
\* the lists of a caller that passes its records on
SharedLists == { <<>>, <<DetNear>>, <<DetMoved>> }
\* one object on a straight line, a step of (5, 2) pixels apart
DetOnLine(k) == Det(<<10 + 5 * k, 10 + 2 * k, 20, 20>>, "person", 90)
\* the lists of a detector that sees the object somewhere on the line, or
\* nothing
MotionLists == { <<>> } \cup { <<DetOnLine(k)>> : k \in 0 .. MaxCalls }
\* a detection whose IoU with DetNear is the threshold itself (160/640 = 1/4)
\* and whose IoU with DetMoved is 13/27
DetEdge == Det(<<22, 10, 20, 20>>, "person", 85)
\* the lists of the frames in which detections compete for tracks
GreedyLists ==
    { <<>>, <<DetNear>>, <<DetEdge>>,
      <<DetNear, DetMoved>>, <<DetEdge, DetMoved>>, <<DetMoved, DetEdge>> }
\* the box of DetNear reported as a car, the box of DetMoved as a person
DetNearCar == Det(<<10, 10, 20, 20>>, "car", 75)
DetMovedPerson == Det(<<15, 10, 20, 20>>, "person", 65)
\* the lists of a detector that changes its mind about the class
LabelLists ==
    { <<>>, <<DetNear>>, <<DetNearCar>>, <<DetMoved>>, <<DetMovedPerson>>,
      <<DetNear, DetMoved>>, <<DetNearCar, DetMovedPerson>> }
\* the lists of the runs in which the colour draws vary
ColourLists == { <<>>, <<DetNear>>, <<DetMoved>>, <<DetNear, DetFar>> }
\* detections without area: no height, no width
DetFlat == Det(<<10, 10, 20, 0>>, "person", 70)
DetThin == Det(<<10, 10, 0, 20>>, "car", 60)
\* the lists of a detector that also reports boxes without area
\* what the model may detect in one frame of the detection screen
FrameLists == {<<>>, <<DetNear>>, <<DetFar>>}

DegenerateLists ==
    { <<>>, <<DetNear>>, <<DetFlat>>, <<DetThin>>,
      <<DetNear, DetFlat>>, <<DetFlat, DetNear>> }
\* the rectangles calculateIoU is measured on (pixels): with and without
\* area, equal, nested, overlapping, touching and apart
IoUBoxes ==
    { ToUnits(<<x, y, w, h>>) :
        x \in {0, 10, 30}, y \in {0, 10}, w \in {0, 10, 20}, h \in {0, 10, 20} }

Trackers == {1, 2}

VARIABLES
    heap,               \* address -> content of a bbox array
    tracks,             \* tracker -> this.tracks
    nextId,             \* tracker -> this.nextId
    maxMissingFrames,   \* tracker -> this.maxMissingFrames
    trace,              \* the calls made so far, with what each returned
    system              \* the ObjectDetectionSystem component that owns tracker 1

vars == <<heap, tracks, nextId, maxMissingFrames, trace, system>>

\* ------------------------------------------------------------ arithmetic
Max(a, b) == IF a >= b THEN a ELSE b
Min(a, b) == IF a <= b THEN a ELSE b

RECURSIVE Gcd(_, _)
Gcd(a, b) == IF b = 0 THEN a ELSE Gcd(b, a % b)

\* a fraction in lowest terms (den > 0)
Frac(n, d) == LET g == Gcd(n, d) IN IF g = 0 THEN <<0, 1>> ELSE <<n \div g, d \div g>>
FracGeq(p, q) == p[1] * q[2] >= q[1] * p[2]
FracGt(p, q) == p[1] * q[2] > q[1] * p[2]

\* ------------------------------------------------------------------ IoU
\* mutant: the intersection is not taken off the union
calculateIoUSumOfAreas(bbox1, bbox2) ==
    LET x1 == Max(bbox1[1], bbox2[1])
        y1 == Max(bbox1[2], bbox2[2])
        x2 == Min(bbox1[1] + bbox1[3], bbox2[1] + bbox2[3])
        y2 == Min(bbox1[2] + bbox1[4], bbox2[2] + bbox2[4])
    IN  IF x2 <= x1 \/ y2 <= y1 THEN <<0, 1>>
        ELSE Frac((x2 - x1) * (y2 - y1), bbox1[3] * bbox1[4] + bbox2[3] * bbox2[4])

\* mutant: the union counts the first box twice and the second not at all
calculateIoUFirstAreaTwice(bbox1, bbox2) ==
    LET x1 == Max(bbox1[1], bbox2[1])
        y1 == Max(bbox1[2], bbox2[2])
        x2 == Min(bbox1[1] + bbox1[3], bbox2[1] + bbox2[3])
        y2 == Min(bbox1[2] + bbox1[4], bbox2[2] + bbox2[4])
    IN  IF x2 <= x1 \/ y2 <= y1 THEN <<0, 1>>
        ELSE Frac((x2 - x1) * (y2 - y1),
                  bbox1[3] * bbox1[4] + bbox1[3] * bbox1[4] - (x2 - x1) * (y2 - y1))

calculateIoU(bbox1, bbox2) ==
    LET x1 == Max(bbox1[1], bbox2[1])
        y1 == Max(bbox1[2], bbox2[2])
        x2 == Min(bbox1[1] + bbox1[3], bbox2[1] + bbox2[3])
        y2 == Min(bbox1[2] + bbox1[4], bbox2[2] + bbox2[4])
    IN  IF x2 <= x1 \/ y2 <= y1 THEN <<0, 1>>
        ELSE LET intersectionArea == (x2 - x1) * (y2 - y1)
                 box1Area == bbox1[3] * bbox1[4]
                 box2Area == bbox2[3] * bbox2[4]
                 unionArea == box1Area + box2Area - intersectionArea
             IN  \* (unionArea || 1): a zero union is replaced by 1 square pixel
                 IF unionArea = 0 THEN Frac(intersectionArea, Scale * Scale)
                 ELSE Frac(intersectionArea, unionArea)

\* -------------------------------------------------------- getRandomColor
\* colors[Math.floor(Math.random() * colors.length)], r in hundredths
getRandomColor(r) == colors[((r * Len(colors)) \div 100) + 1]

\* ------------------------------------------------------- update, step 1
\* track.bbox[0] += track.velocity[0]; track.bbox[1] += track.velocity[1]
\* in place, track by track
\* mutant: the prediction step is left out
predictSkipped(h, trks, i) == h

RECURSIVE predict(_, _, _)
predict(h, trks, i) ==
    IF i > Len(trks) THEN h
    ELSE LET t == trks[i]
             b == h[t.bbox]
         IN  predict([h EXCEPT ![t.bbox] =
                         <<b[1] + t.velocity[1], b[2] + t.velocity[2], b[3], b[4]>>],
                     trks, i + 1)

\* ------------------------------------------------------- update, step 2
\* the (trackIdx, detIdx) pairs in the order the nested forEach visits them
pairAt(k, nD) == [trackIdx |-> ((k - 1) \div nD) + 1, detIdx |-> ((k - 1) % nD) + 1]

\* mutant: every pair is retained, whatever its IoU
candidatePairsNoThreshold(h, trks, detections) ==
    LET nD == Len(detections)
    IN  [k \in 1 .. (Len(trks) * nD) |->
           LET p == pairAt(k, nD)
           IN  [trackIdx |-> p.trackIdx, detIdx |-> p.detIdx,
                iou |-> calculateIoU(h[trks[p.trackIdx].bbox],
                                     h[detections[p.detIdx].bbox])]]

\* mutant: a pair is retained only if the classes agree
candidatePairsSameClass(h, trks, detections) ==
    LET nD == Len(detections)
        all == [k \in 1 .. (Len(trks) * nD) |->
                  LET p == pairAt(k, nD)
                  IN  [trackIdx |-> p.trackIdx, detIdx |-> p.detIdx,
                       same |-> trks[p.trackIdx].class = detections[p.detIdx].class,
                       iou |-> calculateIoU(h[trks[p.trackIdx].bbox],
                                            h[detections[p.detIdx].bbox])]]
        kept == SelectSeq(all, LAMBDA m : m.same /\ FracGeq(m.iou, iouThreshold))
    IN  [k \in 1 .. Len(kept) |->
           [trackIdx |-> kept[k].trackIdx, detIdx |-> kept[k].detIdx,
            iou |-> kept[k].iou]]

\* mutant: a pair is retained only above the threshold
candidatePairsStrict(h, trks, detections) ==
    LET nD == Len(detections)
        all == [k \in 1 .. (Len(trks) * nD) |->
                  LET p == pairAt(k, nD)
                  IN  [trackIdx |-> p.trackIdx, detIdx |-> p.detIdx,
                       iou |-> calculateIoU(h[trks[p.trackIdx].bbox],
                                            h[detections[p.detIdx].bbox])]]
    IN  SelectSeq(all, LAMBDA m : FracGt(m.iou, iouThreshold))

candidatePairs(h, trks, detections) ==
    LET nD == Len(detections)
        all == [k \in 1 .. (Len(trks) * nD) |->
                  LET p == pairAt(k, nD)
                  IN  [trackIdx |-> p.trackIdx, detIdx |-> p.detIdx,
                       iou |-> calculateIoU(h[trks[p.trackIdx].bbox],
                                            h[detections[p.detIdx].bbox])]]
    IN  SelectSeq(all, LAMBDA m : FracGeq(m.iou, iouThreshold))

\* matches.sort((a, b) => b.iou - a.iou): descending, stable
insertSorted(sorted, m) ==
    LET before == SelectSeq(sorted, LAMBDA s : FracGeq(s.iou, m.iou))
        after == SelectSeq(sorted, LAMBDA s : ~FracGeq(s.iou, m.iou))
    IN  before \o <<m>> \o after

\* mutant: the matches are left in the order they were collected
sortMatchesUnsorted(matches, i, sorted) == matches

RECURSIVE sortMatches(_, _, _)
sortMatches(matches, i, sorted) ==
    IF i > Len(matches) THEN sorted
    ELSE sortMatches(matches, i + 1, insertSorted(sorted, matches[i]))

\* ------------------------------------------------------- update, step 3
\* the body of the loop for an accepted match: the track after the update
\* mutant: the measured velocity taken as it is, the old one dropped
smoothVelocityUnsmoothed(v, measured) == measured

smoothVelocity(v, measured) ==
    (v * (alpha[2] - alpha[1]) + measured * alpha[1]) \div alpha[2]

\* mutant: a matched track keeps the missingFrames it had
applyMatchKeepsStreak(h, track, det) ==
    LET prevX == h[track.bbox][1] - track.velocity[1]
        prevY == h[track.bbox][2] - track.velocity[2]
        measuredVx == h[det.bbox][1] - prevX
        measuredVy == h[det.bbox][2] - prevY
    IN  [track EXCEPT
            !.velocity = <<smoothVelocity(track.velocity[1], measuredVx),
                           smoothVelocity(track.velocity[2], measuredVy)>>,
            !.bbox = det.bbox,
            !.score = det.score,
            !.class = det.class]

\* mutant: the track keeps its own box, moved by the smoothed velocity
applyMatchKeepsBox(h, track, det) ==
    LET prevX == h[track.bbox][1] - track.velocity[1]
        prevY == h[track.bbox][2] - track.velocity[2]
        measuredVx == h[det.bbox][1] - prevX
        measuredVy == h[det.bbox][2] - prevY
    IN  [track EXCEPT
            !.velocity = <<smoothVelocity(track.velocity[1], measuredVx),
                           smoothVelocity(track.velocity[2], measuredVy)>>,
            !.score = det.score,
            !.class = det.class,
            !.missingFrames = 0]

applyMatch(h, track, det) ==
    LET prevX == h[track.bbox][1] - track.velocity[1]
        prevY == h[track.bbox][2] - track.velocity[2]
        measuredVx == h[det.bbox][1] - prevX
        measuredVy == h[det.bbox][2] - prevY
    IN  [track EXCEPT
            !.velocity = <<smoothVelocity(track.velocity[1], measuredVx),
                           smoothVelocity(track.velocity[2], measuredVy)>>,
            !.bbox = det.bbox,
            !.score = det.score,
            !.class = det.class,
            !.missingFrames = 0]

\* mutant: a match is skipped only when both its track and its detection
\* are taken
alreadyAssignedBoth(match, acc) ==
    /\ match.trackIdx \in acc.assignedTrackIndices
    /\ match.detIdx \in acc.assignedDetIndices

\* mutant: the test inverted, so that no free pair is ever accepted
alreadyAssignedInverted(match, acc) ==
    ~( \/ match.trackIdx \in acc.assignedTrackIndices
       \/ match.detIdx \in acc.assignedDetIndices )

\* mutant: the loop stops at the first accepted pair
alreadyAssignedAfterFirst(match, acc) == acc.assignedTrackIndices # {}

\* assignedTrackIndices.has(match.trackIdx) || assignedDetIndices.has(match.detIdx)
alreadyAssigned(match, acc) ==
    \/ match.trackIdx \in acc.assignedTrackIndices
    \/ match.detIdx \in acc.assignedDetIndices

\* for (const match of matches): acc is
\* [assignedTrackIndices, assignedDetIndices, activeTracks, accepted]
RECURSIVE assign(_, _, _, _, _, _)
assign(h, trks, detections, matches, i, acc) ==
    IF i > Len(matches) THEN acc
    ELSE LET match == matches[i]
         IN  IF alreadyAssigned(match, acc)
             THEN assign(h, trks, detections, matches, i + 1, acc)
             ELSE assign(h, trks, detections, matches, i + 1,
                    [assignedTrackIndices |->
                        acc.assignedTrackIndices \cup {match.trackIdx},
                     assignedDetIndices |->
                        acc.assignedDetIndices \cup {match.detIdx},
                     activeTracks |->
                        Append(acc.activeTracks,
                               applyMatch(h, trks[match.trackIdx],
                                          detections[match.detIdx])),
                     accepted |-> Append(acc.accepted, match)])

\* ------------------------------------------------------- update, step 4
\* mutant: a track is kept one frame too long
keepTrackOffByOne(track, limit) == track.missingFrames <= limit

\* track.missingFrames < this.maxMissingFrames
keepTrack(track, limit) == track.missingFrames < limit

\* unmatched tracks age; the ones below the limit are kept
RECURSIVE ageUnmatched(_, _, _, _, _)
ageUnmatched(trks, assignedTrackIndices, limit, index, activeTracks) ==
    IF index > Len(trks) THEN activeTracks
    ELSE IF index \in assignedTrackIndices
         THEN ageUnmatched(trks, assignedTrackIndices, limit, index + 1, activeTracks)
         ELSE LET aged == [trks[index] EXCEPT !.missingFrames = @ + 1]
              IN  ageUnmatched(trks, assignedTrackIndices, limit, index + 1,
                     IF keepTrack(aged, limit)
                     THEN Append(activeTracks, aged) ELSE activeTracks)

\* ------------------------------------------------------- update, step 5
newTrack(det, id, r) ==
    [bbox |-> det.bbox, class |-> det.class, score |-> det.score,
     id |-> id, missingFrames |-> 0, color |-> getRandomColor(r),
     velocity |-> <<0, 0>>]

\* mutant: the id counter is read and not incremented
spawnOneSameId(st, det, r) ==
    [activeTracks |-> Append(st.activeTracks, newTrack(det, st.nextId, r)),
     nextId |-> st.nextId,
     drawn |-> st.drawn + 1]

\* activeTracks.push({..., id: this.nextId++, ...}); st is
\* [activeTracks, nextId, drawn], r the Math.random() outcome
spawnOne(st, det, r) ==
    [activeTracks |-> Append(st.activeTracks, newTrack(det, st.nextId, r)),
     nextId |-> st.nextId + 1,
     drawn |-> st.drawn + 1]

\* mutant: every detection becomes a track, matched or not
RECURSIVE spawnEveryDetection(_, _, _, _, _)
spawnEveryDetection(detections, assignedDetIndices, rnd, index, st) ==
    IF index > Len(detections) THEN st
    ELSE spawnEveryDetection(detections, assignedDetIndices, rnd, index + 1,
            spawnOne(st, detections[index],
                     IF st.drawn + 1 \in DOMAIN rnd THEN rnd[st.drawn + 1] ELSE 10))

\* unmatched detections become tracks, in detection order; rnd holds the
\* Math.random() outcomes in the order they are drawn
RECURSIVE spawn(_, _, _, _, _)
spawn(detections, assignedDetIndices, rnd, index, st) ==
    IF index > Len(detections) THEN st
    ELSE IF index \in assignedDetIndices
         THEN spawn(detections, assignedDetIndices, rnd, index + 1, st)
         ELSE spawn(detections, assignedDetIndices, rnd, index + 1,
                    spawnOne(st, detections[index], rnd[st.drawn + 1]))

\* ------------------------------------------------------------ update
association(h, trks, detections) ==
    LET predicted == predict(h, trks, 1)
        matches == sortMatches(candidatePairs(predicted, trks, detections), 1, <<>>)
    IN  assign(predicted, trks, detections, matches, 1,
               [assignedTrackIndices |-> {}, assignedDetIndices |-> {},
                activeTracks |-> <<>>, accepted |-> <<>>])

\* how many times one update call draws a colour
spawnCount(h, trks, detections) ==
    Len(detections) - Cardinality(association(h, trks, detections).assignedDetIndices)

\* the whole of update(detections) on a tracker holding trks and id, over
\* heap h: the heap, this.tracks and this.nextId it leaves, and the matching
update(h, trks, id, limit, detections, rnd) ==
    LET predicted == predict(h, trks, 1)
        matched == association(h, trks, detections)
        kept == ageUnmatched(trks, matched.assignedTrackIndices, limit, 1,
                             matched.activeTracks)
        born == spawn(detections, matched.assignedDetIndices, rnd, 1,
                      [activeTracks |-> kept, nextId |-> id, drawn |-> 0])
    IN  [heap |-> predicted,
         tracks |-> born.activeTracks,
         nextId |-> born.nextId,
         accepted |-> matched.accepted,
         assignedTrackIndices |-> matched.assignedTrackIndices,
         assignedDetIndices |-> matched.assignedDetIndices]

\* ------------------------------------------------------------- the state
\* a list of tracks or detections with each bbox read from the heap
view(h, recs) == [i \in 1 .. Len(recs) |-> [recs[i] EXCEPT !.bbox = h[recs[i].bbox]]]

\* ObjectDetectionSystem when it is mounted: no model yet, no source in the
\* video element, nothing playing, no detectFrame requested or under way.
\*   sources     the sources the video element has been given so far
\*   source      the source the video element shows (0: none)
\*   opening     handleSourceChange('webcam') is awaiting its stream
\*   loadingFile an uploaded file has not fired onloadedmetadata yet
\*   haveData    video.readyState is 4
\*   scheduled   detectFrame callbacks requested and not yet run
\*   requestRef  the callback requestRef.current names is still to run
\*   inflight    detectFrame invocations awaiting model.detect, each with
\*               the source of the frame it gave the model and the
\*               predictions the model will resolve with
mounted ==
    [modelLoaded |-> FALSE, sources |-> 0, source |-> 0,
     opening |-> FALSE, loadingFile |-> FALSE,
     isVideoReady |-> FALSE, isPlaying |-> FALSE, haveData |-> FALSE,
     scheduled |-> 0, requestRef |-> FALSE, inflight |-> <<>>]

\* new ObjectTracker(maxMissingFrames): nextId = 1, tracks = []
Init ==
    /\ heap = <<>>
    /\ tracks = [t \in Trackers |-> <<>>]
    /\ nextId = [t \in Trackers |-> 1]
    /\ \E limit \in 1 .. MaxMissingCfg : maxMissingFrames = [t \in Trackers |-> limit]
    /\ trace = <<>>
    /\ system = mounted

\* the detector's records for one frame: fresh objects, each bbox a new array
allocate(h, values) ==
    [heap |-> h \o [i \in 1 .. Len(values) |-> values[i].bbox],
     detections |-> [i \in 1 .. Len(values) |->
                       [values[i] EXCEPT !.bbox = Len(h) + i]]]

\* the calls made on tracker t so far
CallsOn(t) == Cardinality({i \in 1 .. Len(trace) : trace[i].tracker = t})

\* what one update call leaves in the trace
updateEntry(t, h, detections, r) ==
    [op |-> "update", tracker |-> t,
     detections |-> detections,
     input |-> view(h, detections),
     before |-> view(h, tracks[t]),
     predicted |-> view(r.heap, tracks[t]),
     accepted |-> r.accepted,
     returned |-> view(r.heap, r.tracks)]

resetEntry(t) ==
    [op |-> "reset", tracker |-> t, detections |-> <<>>, input |-> <<>>,
     before |-> view(heap, tracks[t]), predicted |-> <<>>,
     accepted |-> <<>>, returned |-> <<>>]

\* mutant: the id counter is one counter shared by every instance
CallSharedCounter(t, h, detections, rnd) ==
    LET r == update(h, tracks[t], nextId[t], maxMissingFrames[t], detections, rnd)
    IN  /\ heap' = r.heap
        /\ tracks' = [tracks EXCEPT ![t] = r.tracks]
        /\ nextId' = [x \in Trackers |-> r.nextId]
        /\ trace' = Append(trace, updateEntry(t, h, detections, r))
        /\ UNCHANGED <<maxMissingFrames, system>>

\* tracker t's update(detections) over heap h, drawing the colours rnd
Call(t, h, detections, rnd) ==
    LET r == update(h, tracks[t], nextId[t], maxMissingFrames[t], detections, rnd)
    IN  /\ heap' = r.heap
        /\ tracks' = [tracks EXCEPT ![t] = r.tracks]
        /\ nextId' = [nextId EXCEPT ![t] = r.nextId]
        /\ trace' = Append(trace, updateEntry(t, h, detections, r))
        /\ UNCHANGED <<maxMissingFrames, system>>

\* update called with the records of a new frame, its values from lists and
\* the colours drawn from draws
Update(t, lists, draws) ==
    /\ CallsOn(t) < MaxCalls
    /\ \E values \in lists :
          LET a == allocate(heap, values)
          IN  \E rnd \in [1 .. spawnCount(a.heap, tracks[t], a.detections) -> draws] :
                 Call(t, a.heap, a.detections, rnd)

\* mutant: reset() clears the tracks and leaves the id counter where it is
ResetKeepsNextId(t) ==
    /\ CallsOn(t) < MaxCalls
    /\ tracks' = [tracks EXCEPT ![t] = <<>>]
    /\ trace' = Append(trace, resetEntry(t))
    /\ UNCHANGED <<heap, nextId, maxMissingFrames, system>>

\* reset(): tracks = [], nextId = 1
Reset(t) ==
    /\ CallsOn(t) < MaxCalls
    /\ tracks' = [tracks EXCEPT ![t] = <<>>]
    /\ nextId' = [nextId EXCEPT ![t] = 1]
    /\ trace' = Append(trace, resetEntry(t))
    /\ UNCHANGED <<heap, maxMissingFrames, system>>

\* one tracker, fed a fresh detection list per frame
Next == Update(1, DetectionLists, OneDraw) \/ Reset(1)

Spec == Init /\ [][Next]_vars

\* ------------------------------------------------- two trackers, in step
\* Tracker 1 is used alone for a while (updates and resets). From the start,
\* or right after a reset of tracker 1, the newly constructed tracker 2 joins:
\* from then on every update of tracker 1 is followed by an update of
\* tracker 2 with an equal detection list (records of its own) and colours
\* drawn on its own.
Joined == \E i \in 1 .. Len(trace) : trace[i].tracker = 2
LastCall == trace[Len(trace)]

Lead ==
    /\ Joined => LastCall.tracker = 2
    /\ Update(1, PairLists, OneDraw)

ResetAlone ==
    /\ ~Joined
    /\ Reset(1)

Follow ==
    /\ trace # <<>>
    /\ LastCall.tracker = 1 /\ LastCall.op = "update"
    /\ IF Len(trace) = 1 THEN TRUE
       ELSE LET before == trace[Len(trace) - 1]
            IN  before.op = "reset" \/ before.tracker = 2
    /\ Update(2, {LastCall.input}, RandomDraws)

NextPair == Lead \/ ResetAlone \/ Follow

SpecPair == Init /\ [][NextPair]_vars

\* --------------------------------------- two trackers, records passed on
\* The caller owns two trackers, makes MaxCalls calls on them in any order,
\* and gives an update either the records of a new frame or a detection list
\* it passed to an earlier call (the same record objects).
UpdateAgain(t) ==
    /\ Len(trace) < MaxCalls
    /\ \E i \in 1 .. Len(trace) :
          /\ trace[i].op = "update"
          /\ \E rnd \in [1 .. spawnCount(heap, tracks[t], trace[i].detections) -> OneDraw] :
                Call(t, heap, trace[i].detections, rnd)

UpdateNew(t) ==
    /\ Len(trace) < MaxCalls
    /\ Update(t, SharedLists, OneDraw)

ResetEither(t) ==
    /\ Len(trace) < MaxCalls
    /\ Reset(t)

NextShared == \E t \in Trackers : UpdateNew(t) \/ UpdateAgain(t) \/ ResetEither(t)

SpecShared == Init /\ [][NextShared]_vars

\* ----------------------------------- one tracker, an object on a line
UpdateMotion == Update(1, MotionLists, OneDraw)

NextMotion == UpdateMotion \/ Reset(1)

SpecMotion == Init /\ [][NextMotion]_vars

\* ------------------------------ one tracker, an object that is occluded
\* The tracker is constructed to tolerate one more missed frame than the
\* trackers above, and is called once more, so that a track can get a
\* velocity, miss frames and be seen again. The object is on the line.
InitPatient ==
    /\ heap = <<>>
    /\ tracks = [t \in Trackers |-> <<>>]
    /\ nextId = [t \in Trackers |-> 1]
    /\ maxMissingFrames = [t \in Trackers |-> MaxMissingCfg + 1]
    /\ trace = <<>>
    /\ system = mounted

UpdateOccluded ==
    /\ CallsOn(1) <= MaxCalls
    /\ \E values \in MotionLists :
          LET a == allocate(heap, values)
          IN  \E rnd \in [1 .. spawnCount(a.heap, tracks[1], a.detections) -> OneDraw] :
                 Call(1, a.heap, a.detections, rnd)

NextOcclusion == UpdateOccluded \/ Reset(1)

SpecOcclusion == InitPatient /\ [][NextOcclusion]_vars

\* ------------------------- one tracker, detections that compete
UpdateGreedy == Update(1, GreedyLists, OneDraw)

NextGreedy == UpdateGreedy \/ Reset(1)

SpecGreedy == Init /\ [][NextGreedy]_vars

\* --------------------------- one tracker, detections that change class
UpdateLabels == Update(1, LabelLists, OneDraw)

NextLabels == UpdateLabels \/ Reset(1)

SpecLabels == Init /\ [][NextLabels]_vars

\* ------------------------------- one tracker, the colour draws varied
UpdateColour == Update(1, ColourLists, RandomDraws)

NextColour == UpdateColour \/ Reset(1)

SpecColour == Init /\ [][NextColour]_vars

\* ------------------------------------- one tracker, boxes without area
UpdateDegenerate == Update(1, DegenerateLists, OneDraw)

NextDegenerate == UpdateDegenerate \/ Reset(1)

SpecDegenerate == Init /\ [][NextDegenerate]_vars

\* ------------------------------------------------- calculateIoU alone
\* Two bbox arrays are on the heap and calculateIoU is called on them, in
\* either order and on an array with itself; the trace keeps each call with
\* its arguments and what it returned.
InitIoU ==
    /\ heap \in [1 .. 2 -> IoUBoxes]
    /\ tracks = [t \in Trackers |-> <<>>]
    /\ nextId = [t \in Trackers |-> 1]
    /\ maxMissingFrames = [t \in Trackers |-> 1]
    /\ trace = <<>>
    /\ system = mounted

Measure(a, b) ==
    /\ Len(trace) < MaxMeasures
    /\ trace' = Append(trace, [op |-> "calculateIoU", tracker |-> 0,
                               bbox1 |-> heap[a], bbox2 |-> heap[b],
                               iou |-> calculateIoU(heap[a], heap[b])])
    /\ UNCHANGED <<heap, tracks, nextId, maxMissingFrames, system>>

NextIoU == \E a, b \in 1 .. 2 : Measure(a, b)

SpecIoU == InitIoU /\ [][NextIoU]_vars

\* ------------------------- ObjectDetectionSystem, the owner of tracker 1

\* the effect on [isPlaying, isVideoReady, detectFrame] after a render that
\* took the component from old to s: its cleanup cancels the callback that
\* requestRef.current names, then detectFrame is requested when playing
detectionEffect(old, s) ==
    IF old.isPlaying = s.isPlaying /\ old.isVideoReady = s.isVideoReady
    THEN s
    ELSE LET cleaned == IF s.requestRef
                        THEN [s EXCEPT !.scheduled = @ - 1, !.requestRef = FALSE]
                        ELSE s
         IN  IF cleaned.isPlaying /\ cleaned.isVideoReady
             THEN [cleaned EXCEPT !.scheduled = @ + 1, !.requestRef = TRUE]
             ELSE cleaned

\* trackerRef.current.reset() as a handler calls it; the entry keeps how many
\* sources the video element had been given when it ran
resetBySystem ==
    /\ CallsOn(1) < MaxCalls
    /\ tracks' = [tracks EXCEPT ![1] = <<>>]
    /\ nextId' = [nextId EXCEPT ![1] = 1]
    /\ trace' = Append(trace, resetEntry(1) @@ [given |-> system.sources])
    /\ UNCHANGED <<heap, maxMissingFrames>>

\* loadModel: modelRef.current = model
loadModel ==
    /\ ~system.modelLoaded
    /\ system' = [system EXCEPT !.modelLoaded = TRUE]
    /\ UNCHANGED <<heap, tracks, nextId, maxMissingFrames, trace>>

\* handleSourceChange(type) up to its await: the stream is stopped, the
\* video element emptied, the tracker reset; 'webcam' then asks for a stream
handleSourceChange(type) ==
    /\ system.sources < MaxSources
    /\ resetBySystem
    /\ system' = detectionEffect(system,
                    [system EXCEPT !.source = 0, !.haveData = FALSE,
                                   !.isVideoReady = FALSE, !.isPlaying = FALSE,
                                   !.opening = (type = "webcam")])

\* handleSourceChange('webcam') after its await: the stream becomes the
\* source and its onloadedmetadata starts playing
streamLoaded ==
    /\ system.opening
    /\ system' = detectionEffect(system,
                    [system EXCEPT !.opening = FALSE,
                                   !.sources = @ + 1,
                                   !.source = system.sources + 1,
                                   !.haveData = FALSE,
                                   !.isVideoReady = TRUE, !.isPlaying = TRUE])
    /\ UNCHANGED <<heap, tracks, nextId, maxMissingFrames, trace>>

\* handleFileUpload: the file becomes the source and the tracker is reset;
\* isPlaying and isVideoReady are left as they are
handleFileUpload ==
    /\ system.sources < MaxSources
    /\ resetBySystem
    /\ system' = [system EXCEPT !.sources = @ + 1,
                                !.source = system.sources + 1,
                                !.haveData = FALSE, !.loadingFile = TRUE]

\* onloadedmetadata of an uploaded file: setIsVideoReady(true)
fileLoaded ==
    /\ system.loadingFile
    /\ system' = detectionEffect(system,
                    [system EXCEPT !.loadingFile = FALSE, !.isVideoReady = TRUE])
    /\ UNCHANGED <<heap, tracks, nextId, maxMissingFrames, trace>>

\* the video element has buffered its source: readyState becomes 4
canPlay ==
    /\ system.source # 0 /\ ~system.haveData
    /\ system' = [system EXCEPT !.haveData = TRUE]
    /\ UNCHANGED <<heap, tracks, nextId, maxMissingFrames, trace>>

\* the play / pause button
togglePlay ==
    /\ system.isVideoReady
    /\ system' = detectionEffect(system, [system EXCEPT !.isPlaying = ~@])
    /\ UNCHANGED <<heap, tracks, nextId, maxMissingFrames, trace>>

\* the component once the oldest requested detectFrame callback has been
\* taken off the animation frame queue
dequeued ==
    [system EXCEPT !.scheduled = @ - 1,
                   !.requestRef = IF system.scheduled = 1 THEN FALSE ELSE @]

\* detectFrame run before the model is there: it returns and requests nothing
detectFrameNoModel ==
    /\ system.scheduled > 0 /\ ~system.modelLoaded
    /\ system' = dequeued
    /\ UNCHANGED <<heap, tracks, nextId, maxMissingFrames, trace>>

\* detectFrame run while video.readyState is not 4: it requests itself again
detectFrameWait ==
    /\ system.scheduled > 0 /\ system.modelLoaded /\ ~system.haveData
    /\ system' = [system EXCEPT !.requestRef = TRUE]
    /\ UNCHANGED <<heap, tracks, nextId, maxMissingFrames, trace>>

\* detectFrame up to its await: the frame the video element shows is handed
\* to model.detect.  Every requested callback closes over isPlaying = true,
\* for the effect requests detectFrame only while playing and a callback
\* requests no other closure than its own.
detectFrameDetect ==
    /\ system.scheduled > 0 /\ system.modelLoaded /\ system.haveData
    /\ Len(system.inflight) < MaxInflight
    /\ \E values \in FrameLists :
          system' = [dequeued EXCEPT !.inflight =
                        Append(@, [frame |-> system.source, values |-> values])]
    /\ UNCHANGED <<heap, tracks, nextId, maxMissingFrames, trace>>

\* detectFrame after its await, for the k-th invocation under way: the
\* predictions become fresh detection records, the tracker is updated with
\* them and detectFrame is requested again; the entry keeps the source of
\* the frame the predictions were computed from
detectFrameResume(k) ==
    /\ k \in 1 .. Len(system.inflight)
    /\ CallsOn(1) < MaxCalls
    /\ LET f == system.inflight[k]
           a == allocate(heap, f.values)
       IN  \E rnd \in [1 .. spawnCount(a.heap, tracks[1], a.detections) -> OneDraw] :
              LET r == update(a.heap, tracks[1], nextId[1], maxMissingFrames[1],
                              a.detections, rnd)
              IN  /\ heap' = r.heap
                  /\ tracks' = [tracks EXCEPT ![1] = r.tracks]
                  /\ nextId' = [nextId EXCEPT ![1] = r.nextId]
                  /\ trace' = Append(trace,
                                 updateEntry(1, a.heap, a.detections, r)
                                    @@ [frame |-> f.frame])
    /\ system' = [system EXCEPT
                    !.inflight = [i \in 1 .. Len(@) - 1 |->
                                     IF i < k THEN @[i] ELSE @[i + 1]],
                    !.scheduled = @ + 1, !.requestRef = TRUE]
    /\ UNCHANGED maxMissingFrames

NextSystem ==
    \/ loadModel
    \/ \E type \in {"webcam", "file"} : handleSourceChange(type)
    \/ streamLoaded
    \/ handleFileUpload
    \/ fileLoaded
    \/ canPlay
    \/ togglePlay
    \/ detectFrameNoModel
    \/ detectFrameWait
    \/ detectFrameDetect
    \/ \E k \in 1 .. MaxInflight : detectFrameResume(k)

SpecSystem == Init /\ [][NextSystem]_vars

\* =========================================================== the claims
\* what the trace tells about call i
IsUpdate(i) == trace[i].op = "update"
Limit(i) == maxMissingFrames[trace[i].tracker]
IdsOf(trks) == { trks[j].id : j \in 1 .. Len(trks) }
\* the ids of the tracks matched in call i
MatchedIds(i) ==
    { trace[i].before[trace[i].accepted[m].trackIdx].id :
        m \in 1 .. Len(trace[i].accepted) }
\* the tracks that call i created: the last entries of the returned list
BornAt(i) ==
    LET n == Len(trace[i].input) - Len(trace[i].accepted)
        all == trace[i].returned
    IN  SubSeq(all, Len(all) - n + 1, Len(all))
\* the index of the last reset of the same tracker before call i (0: none)
EpochStart(i) ==
    LET resets == { j \in 1 .. (i - 1) :
                      trace[j].op = "reset" /\ trace[j].tracker = trace[i].tracker }
    IN  IF resets = {} THEN 0 ELSE CHOOSE j \in resets : \A k \in resets : k <= j
\* the earlier calls on the same tracker
Earlier(i) == { j \in 1 .. (i - 1) : trace[j].tracker = trace[i].tracker }
\* whether the boxes of predicted track p and detection d of call i overlap enough
Eligible(i, p, d) ==
    FracGeq(calculateIoU(trace[i].predicted[p].bbox, trace[i].input[d].bbox),
            iouThreshold)

\* The model's numbers are exact: no smoothing of a velocity has dropped a
\* fraction of a unit (the track of accepted pair m is entry m of the
\* returned list and holds the box of its detection).
ArithmeticExact ==
    \A i \in 1 .. Len(trace) : \A m \in 1 .. Len(trace[i].accepted) :
        LET old == trace[i].predicted[trace[i].accepted[m].trackIdx]
            new == trace[i].returned[m]
        IN  \A c \in 1 .. 2 :
              alpha[2] * new.velocity[c] =
                  (alpha[2] - alpha[1]) * old.velocity[c]
                  + alpha[1] * (new.bbox[c] - (old.bbox[c] - old.velocity[c]))

\* ---------------------------------------------------------------- C1
\* calls s..n of the trace are the frames of a single object: the live set
\* is empty before call s, every call is an update with exactly one
\* detection, and from call s+1 on the one live track's predicted box has
\* IoU >= iouThreshold with the detection
SoloRun(s, n) ==
    /\ trace[s].before = <<>>
    /\ \A i \in s .. n :
          /\ IsUpdate(i)
          /\ Len(trace[i].input) = 1
          /\ i > s => Len(trace[i].predicted) = 1 /\ Eligible(i, 1, 1)

\* C1: identity stability. Through a run of frames that each detect the one
\* object with IoU >= iouThreshold against the track's predicted box, every
\* update returns exactly one track, and its id is the id of the first frame.
C1_IdentityStable ==
    \A s \in 1 .. Len(trace) : \A n \in s .. Len(trace) :
        SoloRun(s, n) =>
            /\ Len(trace[n].returned) = 1
            /\ trace[n].returned[1].id = trace[s].returned[1].id

\* three frames of a moving object: the track has picked up a velocity
C1_Witness ==
    \E s \in 1 .. Len(trace) : \E n \in s .. Len(trace) :
        /\ n >= s + 2
        /\ SoloRun(s, n)
        /\ trace[n].input[1].bbox # trace[n - 1].input[1].bbox
        /\ trace[n].returned[1].velocity # <<0, 0>>

\* ---------------------------------------------------------------- C2
\* track id is left unmatched by each of the update calls i+1 .. i+k
Unmatched(i, k, id) ==
    \A j \in (i + 1) .. (i + k) : IsUpdate(j) /\ id \notin MatchedIds(j)

\* C2: occlusion tolerance. A track returned with missingFrames 0 and then
\* left unmatched by k consecutive update calls is returned by the k-th with
\* missingFrames = k while k < maxMissingFrames, and is absent from the
\* returned list and from the live set when k = maxMissingFrames.
C2_OcclusionTolerance ==
    \A i \in 1 .. Len(trace) : \A j \in 1 .. Len(trace[i].returned) :
        \A k \in 1 .. Limit(i) :
            LET track == trace[i].returned[j]
                last == trace[i + k].returned
            IN  ( /\ i + k <= Len(trace)
                  /\ track.missingFrames = 0
                  /\ Unmatched(i, k, track.id) )
                =>
                IF k < Limit(i)
                THEN /\ Cardinality({ r \in 1 .. Len(last) : last[r].id = track.id }) = 1
                     /\ \A r \in 1 .. Len(last) :
                           last[r].id = track.id => last[r].missingFrames = k
                ELSE /\ track.id \notin IdsOf(last)
                     /\ i + k = Len(trace) => track.id \notin IdsOf(tracks[trace[i].tracker])

\* a track that was matched, survived a frame without a match and died on the
\* next one
C2_Witness ==
    \E i \in 1 .. Len(trace) : \E j \in 1 .. Len(trace[i].returned) :
        LET track == trace[i].returned[j]
        IN  /\ Limit(i) >= 2
            /\ i + Limit(i) = Len(trace)
            /\ track.id \in MatchedIds(i)
            /\ Unmatched(i, Limit(i), track.id)
            /\ track.id \in IdsOf(trace[i + 1].returned)
            /\ track.id \notin IdsOf(tracks[trace[i].tracker])

\* ---------------------------------------------------------------- C3
\* the candidate pairs of call i: IoU >= iouThreshold
Candidates(i) ==
    { pd \in (1 .. Len(trace[i].predicted)) \X (1 .. Len(trace[i].input)) :
        Eligible(i, pd[1], pd[2]) }

\* C3: one-to-one matching. An update call with N live tracks and M
\* detections accepts at most min(N, M) pairs, and no track index and no
\* detection index is in two accepted pairs.
C3_OneToOne ==
    \A i \in 1 .. Len(trace) :
        LET acc == trace[i].accepted
        IN  /\ Len(acc) <= Min(Len(trace[i].before), Len(trace[i].input))
            /\ \A a, b \in 1 .. Len(acc) :
                  a # b => /\ acc[a].trackIdx # acc[b].trackIdx
                           /\ acc[a].detIdx # acc[b].detIdx

\* two tracks and two detections with every pair a candidate: two pairs are
\* accepted and two are turned down
C3_Witness ==
    \E i \in 1 .. Len(trace) :
        /\ Len(trace[i].before) = 2
        /\ Len(trace[i].input) = 2
        /\ Cardinality(Candidates(i)) = 4
        /\ Len(trace[i].accepted) = 2

\* ---------------------------------------------------------------- C4
\* the detections of call i with IoU < iouThreshold against every live
\* track's predicted box
Strangers(i) ==
    { d \in 1 .. Len(trace[i].input) :
        \A p \in 1 .. Len(trace[i].predicted) : ~Eligible(i, p, d) }
\* the ids the tracker of call i handed out in the calls J before call i
AssignedIn(i, J) == UNION { IdsOf(trace[j].returned) : j \in J }
\* track is the track a stranger detection det must produce, its id new
\* against the ids in old
IsBirthOf(track, det, old) ==
    /\ track.bbox = det.bbox
    /\ track.class = det.class
    /\ track.score = det.score
    /\ track.velocity = <<0, 0>>
    /\ track.missingFrames = 0
    /\ track.id \notin old
    /\ \A id \in old : track.id > id
\* every stranger of call i has its own new track in the returned list
BirthsAt(i, old) ==
    \E f \in [Strangers(i) -> 1 .. Len(trace[i].returned)] :
        /\ \A d, e \in Strangers(i) : d # e => f[d] # f[e]
        /\ \A d \in Strangers(i) :
              IsBirthOf(trace[i].returned[f[d]], trace[i].input[d], old)

\* C4 as stated: the id of a new track was never assigned before by this
\* tracker and is greater than every id assigned before.
C4_BirthEver ==
    \A i \in 1 .. Len(trace) :
        IsUpdate(i) => BirthsAt(i, AssignedIn(i, Earlier(i)))

\* C4, amended: in any update call, every detection with IoU < iouThreshold
\* against every live track's predicted box produces a new track in the
\* returned list with the detection's box, class and score, velocity (0,0),
\* missingFrames 0 and an id that was not assigned, and is greater than
\* every id assigned, since the tracker was constructed or last reset.
C4_Birth ==
    \A i \in 1 .. Len(trace) :
        IsUpdate(i) =>
            BirthsAt(i, AssignedIn(i, { j \in Earlier(i) : j > EpochStart(i) }))

\* two strangers are born beside a live track, after a reset of a tracker
\* that had handed out ids before
C4_Witness ==
    \E i \in 1 .. Len(trace) :
        /\ IsUpdate(i)
        /\ trace[i].before # <<>>
        /\ Cardinality(Strangers(i)) = 2
        /\ EpochStart(i) > 1
        /\ AssignedIn(i, Earlier(i)) # {}

\* ---------------------------------------------------------------- C5
Distinct(trks) == \A a, b \in 1 .. Len(trks) : a # b => trks[a].id # trks[b].id

\* C5: after any sequence of update and reset calls no two tracks of the
\* live set, and none of a returned list, have the same id.
C5_LiveIdsUnique ==
    /\ \A t \in Trackers : Distinct(tracks[t])
    /\ \A i \in 1 .. Len(trace) : Distinct(trace[i].returned)

\* three live tracks, two of them born in one call, after a reset
C5_Witness ==
    /\ Len(tracks[1]) >= 3
    /\ Len(BornAt(Len(trace))) = 2
    /\ EpochStart(Len(trace)) > 1

\* ---------------------------------------------------------------- C6
\* the ids handed out by the calls in J, in the order the tracks were spawned
RECURSIVE SpawnedIds(_, _)
SpawnedIds(t, n) ==
    IF n = 0 THEN <<>>
    ELSE SpawnedIds(t, n - 1) \o
         ( IF trace[n].tracker = t /\ IsUpdate(n)
           THEN [j \in 1 .. Len(BornAt(n)) |->
                   [id |-> BornAt(n)[j].id, epoch |-> EpochStart(n)]]
           ELSE <<>> )

\* C6 as stated: ids are positive, increase in order of spawn and are never
\* assigned twice by one tracker instance.
C6_IdsNeverReused ==
    \A t \in Trackers :
        LET ids == SpawnedIds(t, Len(trace))
        IN  /\ \A a \in 1 .. Len(ids) : ids[a].id > 0
            /\ \A a, b \in 1 .. Len(ids) : a < b => ids[a].id < ids[b].id

\* C6, amended: track ids are positive integers; between two resets (and
\* from construction to the first reset) they increase in order of spawn,
\* so none is assigned to two tracks. reset() restarts the numbering at 1.
C6_IdsIncreasePerEpoch ==
    \A t \in Trackers :
        LET ids == SpawnedIds(t, Len(trace))
        IN  /\ \A a \in 1 .. Len(ids) : ids[a].id > 0
            /\ \A a, b \in 1 .. Len(ids) :
                  a < b /\ ids[a].epoch = ids[b].epoch => ids[a].id < ids[b].id

\* tracks spawned before and after a reset, three of them after it
C6_Witness ==
    LET ids == SpawnedIds(1, Len(trace))
    IN  /\ Len(ids) >= 4
        /\ ids[1].epoch = 0
        /\ ids[Len(ids)].epoch > 0
        /\ ids[Len(ids)].id = 3

\* --------------------------------------------------------------- C10
\* the boxes of the scenario, and its figures, in model units
ScenarioFirst == ToUnits(<<10, 10, 20, 20>>)
ScenarioSecond == ToUnits(<<15, 10, 20, 20>>)
\* 2.5 pixels; 17.5 pixels
ScenarioVelocity == <<(5 * Scale) \div 2, 0>>
ScenarioPredicted == <<(35 * Scale) \div 2, Px(10), Px(20), Px(20)>>
\* the first n calls are the first n frames of the scenario, on a tracker
\* constructed with maxMissingFrames 2 (and the default iouThreshold 0.25)
Scenario(n) ==
    /\ Len(trace) >= n
    /\ maxMissingFrames[1] = 2
    /\ \A i \in 1 .. n : IsUpdate(i) /\ trace[i].tracker = 1
    /\ n >= 1 => Len(trace[1].input) = 1 /\ trace[1].input[1].bbox = ScenarioFirst
    /\ n >= 2 => Len(trace[2].input) = 1 /\ trace[2].input[1].bbox = ScenarioSecond
    /\ n >= 3 => trace[3].input = <<>>
    /\ n >= 4 => trace[4].input = <<>>

\* C10: the end-to-end scenario. Frame 1 returns one track, id 1, velocity
\* (0,0); frame 2 the same id with box (15,10,20,20) and velocity (2.5,0);
\* frame 3, without detections, id 1 with missingFrames 1 and box
\* (17.5,10,20,20); frame 4, without detections, an empty list.
C10_Scenario ==
    /\ Scenario(1) =>
          /\ Len(trace[1].returned) = 1
          /\ trace[1].returned[1].id = 1
          /\ trace[1].returned[1].velocity = <<0, 0>>
    /\ Scenario(2) =>
          /\ Len(trace[2].returned) = 1
          /\ trace[2].returned[1].id = 1
          /\ trace[2].returned[1].bbox = ScenarioSecond
          /\ trace[2].returned[1].velocity = ScenarioVelocity
    /\ Scenario(3) =>
          /\ Len(trace[3].returned) = 1
          /\ trace[3].returned[1].id = 1
          /\ trace[3].returned[1].missingFrames = 1
          /\ trace[3].returned[1].bbox = ScenarioPredicted
    /\ Scenario(4) =>
          /\ trace[4].returned = <<>>
          /\ Len(trace) = 4 => tracks[1] = <<>>

\* the four frames of the scenario have been played
C10_Witness == Scenario(4) /\ Len(trace) = 4

\* ---------------------------------------------------------------- C7
\* a list of tracks without the display colours
Colourless(trks) ==
    [i \in 1 .. Len(trks) |->
       [id |-> trks[i].id, bbox |-> trks[i].bbox, velocity |-> trks[i].velocity,
        missingFrames |-> trks[i].missingFrames,
        class |-> trks[i].class, score |-> trks[i].score]]
\* call j is tracker 2 following tracker 1's call j - 1
IsFollow(j) == j >= 2 /\ trace[j].tracker = 2
ResetsBefore(j) == { i \in 1 .. j : trace[i].op = "reset" }

\* C7: reset equivalence. reset() leaves the live set empty and the id
\* counter at 1; from then on every update returns the ids, boxes,
\* velocities and missingFrames that a newly constructed tracker with the
\* same configuration returns for the same detection lists, and the first
\* track spawned after a reset has id 1.
C7_ResetEquivalence ==
    /\ ( trace # <<>> /\ LastCall.op = "reset" ) =>
          tracks[LastCall.tracker] = <<>> /\ nextId[LastCall.tracker] = 1
    /\ \A j \in 1 .. Len(trace) :
          ( IsFollow(j) /\ ResetsBefore(j) # {} ) =>
              Colourless(trace[j].returned) = Colourless(trace[j - 1].returned)
    /\ \A j \in 2 .. Len(trace) :
          ( /\ trace[j - 1].op = "reset"
            /\ trace[j - 1].tracker = trace[j].tracker
            /\ IsUpdate(j)
            /\ trace[j].input # <<>> ) =>
              trace[j].returned[1].id = 1

\* tracker 1 was reset while it held a track and had handed out ids, and has
\* since run two frames in step with the new tracker, the second with a match
C7_Witness ==
    \E b \in ResetsBefore(Len(trace)) :
        /\ trace[b].before # <<>>
        /\ Len(trace) = b + 4
        /\ IsFollow(b + 2) /\ IsFollow(b + 4)
        /\ trace[b + 4].accepted # <<>>
        /\ trace[b + 4].returned[1].velocity # <<0, 0>>

C9_Independence ==
    [][ \A t \in Trackers :
          ( Len(trace') = Len(trace) + 1 /\ trace'[Len(trace')].tracker # t ) =>
              view(heap', tracks'[t]) = view(heap, tracks[t]) ]_vars

\* --------------------------------------------------------------- C11
Area(b) == b[3] * b[4]
HasArea(b) == b[3] > 0 /\ b[4] > 0
\* rectangle a covers rectangle b
Contains(a, b) ==
    /\ a[1] <= b[1] /\ b[1] + b[3] <= a[1] + a[3]
    /\ a[2] <= b[2] /\ b[2] + b[4] <= a[2] + a[4]
\* the rectangles are disjoint or touch along an edge or at a corner
Apart(a, b) ==
    \/ a[1] + a[3] <= b[1] \/ b[1] + b[3] <= a[1]
    \/ a[2] + a[4] <= b[2] \/ b[2] + b[4] <= a[2]
\* the calls of calculateIoU in the trace
Measures == { i \in 1 .. Len(trace) : trace[i].op = "calculateIoU" }

C12_IoUSymmetric ==
    \A i, j \in Measures :
        ( trace[i].bbox1 = trace[j].bbox2 /\ trace[i].bbox2 = trace[j].bbox1 ) =>
            trace[i].iou = trace[j].iou

\* two overlapping rectangles of different areas, neither inside the other,
\* measured in both orders
C12_Witness ==
    /\ Len(trace) = 2
    /\ trace[1].bbox1 = trace[2].bbox2 /\ trace[1].bbox2 = trace[2].bbox1
    /\ Area(trace[1].bbox1) # Area(trace[1].bbox2)
    /\ ~Contains(trace[1].bbox1, trace[1].bbox2)
    /\ ~Contains(trace[1].bbox2, trace[1].bbox1)
    /\ trace[1].iou # <<0, 1>>

\* --------------------------------------------------------------- C13
ZeroArea(b) == b[3] = 0 \/ b[4] = 0
\* the boxes update call i had before it: the predicted boxes of the live
\* tracks and the boxes of the detections
BoxesAt(i) ==
    { trace[i].predicted[p].bbox : p \in 1 .. Len(trace[i].predicted) }
    \cup { trace[i].input[d].bbox : d \in 1 .. Len(trace[i].input) }

\* C13: a rectangle with zero width or zero height has IoU 0 with every
\* rectangle, itself included; so (iouThreshold > 0) no accepted pair of any
\* update call has a zero-area detection or a track whose box has zero area.
C13_ZeroAreaNeverMatched ==
    \A i \in 1 .. Len(trace) :
        IsUpdate(i) =>
            /\ \A a, b \in BoxesAt(i) :
                  ZeroArea(a) => /\ calculateIoU(a, b) = <<0, 1>>
                                 /\ calculateIoU(b, a) = <<0, 1>>
            /\ \A m \in 1 .. Len(trace[i].accepted) :
                  /\ ~ZeroArea(trace[i].predicted[trace[i].accepted[m].trackIdx].bbox)
                  /\ ~ZeroArea(trace[i].input[trace[i].accepted[m].detIdx].bbox)

\* a track without area meets a detection with its very box and a track
\* with area: the first pair is not accepted, and the detection becomes a
\* second track on the same box
C13_Witness ==
    \E i \in 1 .. Len(trace) :
        /\ IsUpdate(i)
        /\ Len(trace[i].predicted) = 2
        /\ \E p \in 1 .. 2 : \E d \in 1 .. Len(trace[i].input) :
              /\ ZeroArea(trace[i].predicted[p].bbox)
              /\ trace[i].predicted[p].bbox = trace[i].input[d].bbox
        /\ \E p \in 1 .. 2 : ~ZeroArea(trace[i].predicted[p].bbox)
        /\ Len(trace[i].accepted) = 1
        /\ Len(BornAt(i)) = 1
        /\ ZeroArea(BornAt(i)[1].bbox)

\* --------------------------------------------------------------- C14
\* the ids of a list of tracks with their missingFrames
Streaks(trks) ==
    { <<trks[j].id, trks[j].missingFrames>> : j \in 1 .. Len(trks) }
\* the live tracks before call i that one more missed frame leaves below
\* the limit, with the missingFrames they then have
Survivors(i) ==
    { <<trace[i].before[j].id, trace[i].before[j].missingFrames + 1>> :
        j \in { k \in 1 .. Len(trace[i].before) :
                  trace[i].before[k].missingFrames + 1 < Limit(i) } }

\* C14: empty-side frames. update([]) accepts no pair and returns exactly
\* the live tracks whose missingFrames, raised by one, is below
\* maxMissingFrames, each with the raised value; update(D) on a tracker
\* without live tracks returns one new track per detection of D, in
\* detection order, with consecutive ids.
C14_EmptySides ==
    \A i \in 1 .. Len(trace) :
        IsUpdate(i) =>
            /\ trace[i].input = <<>> =>
                  /\ trace[i].accepted = <<>>
                  /\ Streaks(trace[i].returned) = Survivors(i)
                  /\ Len(trace[i].returned) = Cardinality(Survivors(i))
            /\ trace[i].before = <<>> =>
                  /\ trace[i].accepted = <<>>
                  /\ Len(trace[i].returned) = Len(trace[i].input)
                  /\ \A d \in 1 .. Len(trace[i].input) :
                        LET track == trace[i].returned[d]
                            det == trace[i].input[d]
                        IN  /\ track.bbox = det.bbox
                            /\ track.class = det.class
                            /\ track.score = det.score
                            /\ track.missingFrames = 0
                            /\ track.id = trace[i].returned[1].id + d - 1

\* two detections on an empty tracker give ids 1 and 2; later an empty
\* frame drops one of the two tracks and returns the other
C14_Witness ==
    \E i, j \in 1 .. Len(trace) :
        /\ IsUpdate(i) /\ IsUpdate(j)
        /\ trace[i].before = <<>>
        /\ Len(trace[i].input) = 2
        /\ trace[j].input = <<>>
        /\ Len(trace[j].before) = 2
        /\ Len(trace[j].returned) = 1
        /\ trace[j].returned[1].missingFrames = 1

\* --------------------------------------------------------------- C15
\* the ids that are in the list returned by call i and were not live before
Entered(i) == IdsOf(trace[i].returned) \ IdsOf(trace[i].before)
\* the ids that were live before call i and are not in what it returned
Left(i) == IdsOf(trace[i].before) \ IdsOf(trace[i].returned)
\* the missingFrames that the track with this id had before call i
StreakBefore(i, id) ==
    LET j == CHOOSE k \in 1 .. Len(trace[i].before) : trace[i].before[k].id = id
    IN  trace[i].before[j].missingFrames

\* C15: track creation and destruction. In an update call the tracks that
\* enter the live set are as many as the detections left unmatched (so none
\* enters when none is left unmatched); a track that leaves the live set was
\* unmatched in that call and its missingFrames reached maxMissingFrames;
\* every track matched in the call is in the returned list; and the only
\* other way out of the live set is reset, which empties it.
C15_CreationAndDestruction ==
    /\ \A i \in 1 .. Len(trace) :
          IsUpdate(i) =>
             /\ Cardinality(Entered(i)) = Len(trace[i].input) - Len(trace[i].accepted)
             /\ \A id \in Left(i) :
                   /\ id \notin MatchedIds(i)
                   /\ StreakBefore(i, id) + 1 = Limit(i)
             /\ MatchedIds(i) \subseteq IdsOf(trace[i].returned)
    /\ \A t \in Trackers :
          LET calls == { i \in 1 .. Len(trace) : trace[i].tracker = t }
          IN  calls # {} =>
                 LET last == CHOOSE i \in calls : \A k \in calls : k <= i
                 IN  view(heap, tracks[t]) = trace[last].returned

\* one call in which a track is matched, another is dropped and a
\* detection left unmatched becomes a track; and a reset of a tracker that
\* held tracks
C15_Witness ==
    /\ \E i \in 1 .. Len(trace) :
          /\ IsUpdate(i)
          /\ Cardinality(MatchedIds(i)) = 1
          /\ Cardinality(Left(i)) = 1
          /\ Cardinality(Entered(i)) = 1
    /\ LastCall.op = "reset"
    /\ LastCall.before # <<>>

\* --------------------------------------------------------------- C16
\* C16: every track matched in an update call is returned with
\* missingFrames 0, whatever it was before the call; and a live track is
\* dropped by an update call exactly when the call leaves it unmatched and
\* its missingFrames reaches maxMissingFrames, whatever its score, class,
\* box and velocity.
C16_StreakRulesDeath ==
    \A i \in 1 .. Len(trace) :
        IsUpdate(i) =>
            /\ \A r \in 1 .. Len(trace[i].returned) :
                  trace[i].returned[r].id \in MatchedIds(i) =>
                      trace[i].returned[r].missingFrames = 0
            /\ \A b \in 1 .. Len(trace[i].before) :
                  LET track == trace[i].before[b]
                  IN  track.id \in Left(i) <=>
                         /\ track.id \notin MatchedIds(i)
                         /\ track.missingFrames + 1 >= Limit(i)

\* a track that had missed a frame is matched again; a later call leaves
\* two tracks unmatched, drops the one that had missed a frame already and
\* keeps the other, a track of another class and another size
C16_Witness ==
    /\ \E i \in 1 .. Len(trace) : \E b \in 1 .. Len(trace[i].before) :
          /\ IsUpdate(i)
          /\ trace[i].before[b].missingFrames > 0
          /\ trace[i].before[b].id \in MatchedIds(i)
    /\ \E j \in 1 .. Len(trace) : \E a, b \in 1 .. Len(trace[j].before) :
          /\ IsUpdate(j)
          /\ MatchedIds(j) = {}
          /\ trace[j].before[a].id \in Left(j)
          /\ trace[j].before[b].id \notin Left(j)
          /\ trace[j].before[a].class # trace[j].before[b].class
          /\ trace[j].before[a].bbox[3] # trace[j].before[b].bbox[3]

\* --------------------------------------------------------------- C17
\* the call made on the tracker of call i right before call i (0: none)
PreviousCall(i) ==
    IF Earlier(i) = {} THEN 0
    ELSE CHOOSE j \in Earlier(i) : \A k \in Earlier(i) : k <= j
\* box b moved by velocity v, its width and height kept
Moved(b, v) == <<b[1] + v[1], b[2] + v[2], b[3], b[4]>>

TrackOf(trks, id) == trks[CHOOSE r \in 1 .. Len(trks) : trks[r].id = id]
\* the detection that call k matched to the track with this id
MatchOf(k, id) ==
    LET m == CHOOSE a \in 1 .. Len(trace[k].accepted) :
                 trace[k].before[trace[k].accepted[a].trackIdx].id = id
    IN  trace[k].input[trace[k].accepted[m].detIdx]
\* the track with this id is spawned by call s and matched by each of the
\* calls s+1 .. n, to detections whose top-left moves by v per call
ConstantMotion(s, n, id, v) ==
    /\ IsUpdate(s)
    /\ id \in IdsOf(BornAt(s))
    /\ \A k \in (s + 1) .. n :
          /\ IsUpdate(k)
          /\ id \in MatchedIds(k)
          /\ \A c \in 1 .. 2 :
                MatchOf(k, id).bbox[c] =
                    TrackOf(trace[s].returned, id).bbox[c] + (k - s) * v[c]
\* the step from the box a track was spawned on to its first match
FirstStep(s, id) ==
    <<MatchOf(s + 1, id).bbox[1] - TrackOf(trace[s].returned, id).bbox[1],
      MatchOf(s + 1, id).bbox[2] - TrackOf(trace[s].returned, id).bbox[2]>>

\* C18: velocity convergence. A track spawned and then matched on each of
\* the next n frames to detections that move by a constant V per frame has
\* velocity V * (1 - 0.5^n) after the n-th: 2^n * velocity = (2^n - 1) * V.
C18_VelocityConvergence ==
    \A s \in 1 .. Len(trace) : \A n \in (s + 1) .. Len(trace) :
        \A id \in IdsOf(trace[s].returned) :
            ( /\ IsUpdate(s + 1) /\ id \in MatchedIds(s + 1)
              /\ ConstantMotion(s, n, id, FirstStep(s, id)) )
            =>
            \A c \in 1 .. 2 :
                (2 ^ (n - s)) * TrackOf(trace[n].returned, id).velocity[c] =
                    ((2 ^ (n - s)) - 1) * FirstStep(s, id)[c]

\* three matched frames of an object that moves in x and in y
C18_Witness ==
    \E s \in 1 .. Len(trace) : \E id \in IdsOf(trace[s].returned) :
        /\ Len(trace) = s + 3
        /\ IsUpdate(s + 1) /\ id \in MatchedIds(s + 1)
        /\ ConstantMotion(s, s + 3, id, FirstStep(s, id))
        /\ FirstStep(s, id)[1] # 0 /\ FirstStep(s, id)[2] # 0

\* --------------------------------------------------------------- C19
\* the ids of a list of tracks, in the order of the list
IdSeq(trks) == [r \in 1 .. Len(trks) |-> trks[r].id]
\* the ids of the tracks call i matched, in the order of the live set
MatchedInLiveOrder(i) ==
    IdSeq(SelectSeq(trace[i].before, LAMBDA t : t.id \in MatchedIds(i)))
\* the ids of the tracks call i matched, in the order the pairs were accepted
MatchedInAcceptedOrder(i) ==
    [m \in 1 .. Len(trace[i].accepted) |->
        trace[i].before[trace[i].accepted[m].trackIdx].id]
\* the ids of the unmatched tracks that call i kept, in the order of the
\* live set
AgedSurvivors(i) ==
    IdSeq(SelectSeq(trace[i].before,
                    LAMBDA t : /\ t.id \notin MatchedIds(i)
                               /\ t.missingFrames + 1 < Limit(i)))

\* the detections call i left unmatched, in the order of the list
UnmatchedDetections(i) ==
    LET taken == { trace[i].accepted[m].detIdx : m \in 1 .. Len(trace[i].accepted) }
        idx == SelectSeq([k \in 1 .. Len(trace[i].input) |-> k],
                         LAMBDA k : k \notin taken)
    IN  [j \in 1 .. Len(idx) |-> trace[i].input[idx[j]]]
\* what a new track has of its detection
Observed(trks) ==
    [r \in 1 .. Len(trks) |->
       [bbox |-> trks[r].bbox, class |-> trks[r].class, score |-> trks[r].score]]

\* C19 as stated: the returned list holds the matched tracks in their
\* original live-set order, then the aged survivors, then the new tracks.
C19_LiveSetOrder ==
    \A i \in 1 .. Len(trace) :
        IsUpdate(i) =>
            IdSeq(trace[i].returned) =
                MatchedInLiveOrder(i) \o AgedSurvivors(i) \o IdSeq(BornAt(i))

\* C19, amended: the returned list holds the matched tracks in the order
\* their pairs were accepted (IoU descending), then the aged survivors in
\* live-set order, then the new tracks in detection order.
C19_AcceptedOrder ==
    \A i \in 1 .. Len(trace) :
        IsUpdate(i) =>
            /\ IdSeq(trace[i].returned) =
                  MatchedInAcceptedOrder(i) \o AgedSurvivors(i) \o IdSeq(BornAt(i))
            /\ \A m \in 1 .. (Len(trace[i].accepted) - 1) :
                  FracGeq(trace[i].accepted[m].iou, trace[i].accepted[m + 1].iou)
            /\ Observed(BornAt(i)) = UnmatchedDetections(i)

\* two tracks matched with the second of the live set first, because its
\* pair has the larger IoU
C19_Witness ==
    \E i \in 1 .. Len(trace) :
        /\ IsUpdate(i)
        /\ Len(trace[i].accepted) = 2
        /\ trace[i].accepted[1].trackIdx > trace[i].accepted[2].trackIdx
        /\ FracGt(trace[i].accepted[1].iou, trace[i].accepted[2].iou)

\* --------------------------------------------------------------- C20
\* C20: detections are input-only. Every detection record that was passed
\* to an update call still has the box, class and score it was passed with,
\* after that call and after every later update and reset.
C20_DetectionsInputOnly ==
    \A i \in 1 .. Len(trace) :
        IsUpdate(i) => view(heap, trace[i].detections) = trace[i].input

\* --------------------------------------------------------------- C21
\* C21: apply match. The track of every accepted pair is returned with the
\* box, class and score of the pair's detection (the box exactly, not
\* smoothed) and with the id and colour it had before the call.
C21_ApplyMatch ==
    \A i \in 1 .. Len(trace) : \A m \in 1 .. Len(trace[i].accepted) :
        LET old == trace[i].before[trace[i].accepted[m].trackIdx]
            det == trace[i].input[trace[i].accepted[m].detIdx]
            new == TrackOf(trace[i].returned, old.id)
        IN  /\ old.id \in IdsOf(trace[i].returned)
            /\ new.bbox = det.bbox
            /\ new.class = det.class
            /\ new.score = det.score
            /\ new.color = old.color

\* a track with a velocity is matched to a detection of another class at
\* another place than predicted, while a track of another colour is live
C21_Witness ==
    \E i \in 1 .. Len(trace) : \E m \in 1 .. Len(trace[i].accepted) :
        LET old == trace[i].predicted[trace[i].accepted[m].trackIdx]
            det == trace[i].input[trace[i].accepted[m].detIdx]
        IN  /\ old.velocity # <<0, 0>>
            /\ old.bbox # det.bbox
            /\ old.class # det.class
            /\ old.score # det.score
            /\ \E r \in 1 .. Len(trace[i].returned) :
                  trace[i].returned[r].color # old.color

\* --------------------------------------------------------------- C22
\* C22: velocity update. For every accepted pair, the track's new velocity
\* is 0.5 * old velocity + 0.5 * (detection top-left - pre-prediction
\* top-left); the old velocity and the pre-prediction top-left (predicted
\* box minus old velocity) are the velocity and the box the track had in the
\* list the previous update call returned, also when the track had gone
\* unmatched for several frames.
C22_VelocityUpdate ==
    \A i \in 1 .. Len(trace) : \A m \in 1 .. Len(trace[i].accepted) :
        LET old == trace[i].predicted[trace[i].accepted[m].trackIdx]
            det == trace[i].input[trace[i].accepted[m].detIdx]
            new == TrackOf(trace[i].returned, old.id)
            last == TrackOf(trace[PreviousCall(i)].returned, old.id)
        IN  /\ old.velocity = last.velocity
            /\ \A c \in 1 .. 2 :
                  /\ old.bbox[c] - old.velocity[c] = last.bbox[c]
                  /\ 2 * new.velocity[c] =
                        last.velocity[c] + (det.bbox[c] - last.bbox[c])

\* a track with a velocity misses two frames and is then matched, to a
\* detection that is not where the track was predicted
C22_Witness ==
    \E i \in 3 .. Len(trace) : \E m \in 1 .. Len(trace[i].accepted) :
        LET old == trace[i].predicted[trace[i].accepted[m].trackIdx]
            det == trace[i].input[trace[i].accepted[m].detIdx]
        IN  /\ old.missingFrames = 2
            /\ old.velocity[1] # 0 /\ old.velocity[2] # 0
            /\ det.bbox # old.bbox
            /\ TrackOf(trace[i].returned, old.id).velocity # old.velocity

\* --------------------------------------------------------------- C23
\* the IoU of predicted track p and detection d of call i
IoUAt(i, p, d) == calculateIoU(trace[i].predicted[p].bbox, trace[i].input[d].bbox)
\* the accepted pairs of call i, as <<track, detection>>
AcceptedPairs(i) ==
    { <<trace[i].accepted[m].trackIdx, trace[i].accepted[m].detIdx>> :
        m \in 1 .. Len(trace[i].accepted) }

\* C23: greedy assignment. Every accepted pair is a candidate (IoU >=
\* iouThreshold, equality included); a candidate whose IoU is the highest of
\* the frame is accepted, and some accepted pair has the highest IoU; a
\* candidate that is not accepted shares its track or its detection with an
\* accepted pair whose IoU is greater than or equal to its own.
C23_Greedy ==
    \A i \in 1 .. Len(trace) :
        IsUpdate(i) =>
            /\ AcceptedPairs(i) \subseteq Candidates(i)
            /\ \A m \in 1 .. Len(trace[i].accepted) :
                  trace[i].accepted[m].iou =
                      IoUAt(i, trace[i].accepted[m].trackIdx, trace[i].accepted[m].detIdx)
            /\ \A c \in Candidates(i) :
                  ( \A o \in Candidates(i) \ {c} :
                       FracGt(IoUAt(i, c[1], c[2]), IoUAt(i, o[1], o[2])) )
                  => c \in AcceptedPairs(i)
            /\ Candidates(i) # {} =>
                  \E a \in AcceptedPairs(i) : \A o \in Candidates(i) :
                      FracGeq(IoUAt(i, a[1], a[2]), IoUAt(i, o[1], o[2]))
            /\ \A c \in Candidates(i) \ AcceptedPairs(i) :
                  \E a \in AcceptedPairs(i) :
                      /\ a[1] = c[1] \/ a[2] = c[2]
                      /\ FracGeq(IoUAt(i, a[1], a[2]), IoUAt(i, c[1], c[2]))

\* a pair is accepted with an IoU equal to the threshold while a candidate
\* of the same frame is turned down; and in some frame a candidate at the
\* threshold loses its track to a better pair
C23_Witness ==
    /\ \E i \in 1 .. Len(trace) : \E a \in AcceptedPairs(i) :
          /\ IoUAt(i, a[1], a[2]) = iouThreshold
          /\ Candidates(i) # AcceptedPairs(i)
    /\ \E j \in 1 .. Len(trace) : \E c \in Candidates(j) \ AcceptedPairs(j) :
          /\ IoUAt(j, c[1], c[2]) = iouThreshold
          /\ \E a \in AcceptedPairs(j) : a[1] = c[1] /\ a[2] # c[2]

\* --------------------------------------------------------------- C24
\* C24: re-match after occlusion. A track with 0 < missingFrames <
\* maxMissingFrames that an update call matches is returned by the call with
\* the id it had, missingFrames 0 and the detection's box, and the call
\* spawns no track for that detection: the tracks that enter the live set
\* are as many as the detections outside the accepted pairs.
C24_Rematch ==
    \A i \in 1 .. Len(trace) : \A m \in 1 .. Len(trace[i].accepted) :
        LET old == trace[i].before[trace[i].accepted[m].trackIdx]
            det == trace[i].input[trace[i].accepted[m].detIdx]
        IN  ( 0 < old.missingFrames /\ old.missingFrames < Limit(i) ) =>
               /\ Cardinality({ r \in 1 .. Len(trace[i].returned) :
                                   trace[i].returned[r].id = old.id }) = 1
               /\ TrackOf(trace[i].returned, old.id).missingFrames = 0
               /\ TrackOf(trace[i].returned, old.id).bbox = det.bbox
               /\ Cardinality(Entered(i)) = Len(trace[i].input) - Len(trace[i].accepted)
               /\ Len(trace[i].returned) =
                     Len(trace[i].accepted) + Len(AgedSurvivors(i))
                     + Len(trace[i].input) - Len(trace[i].accepted)

\* a track with a velocity that has missed two frames is matched again, by
\* the only detection of the frame, and is the only track returned
C24_Witness ==
    \E i \in 1 .. Len(trace) : \E m \in 1 .. Len(trace[i].accepted) :
        LET old == trace[i].before[trace[i].accepted[m].trackIdx]
        IN  /\ old.missingFrames = 2
            /\ old.velocity # <<0, 0>>
            /\ Len(trace[i].input) = 1
            /\ Len(trace[i].returned) = 1

\* --------------------------------------------------------------- C25
\* C25: after every update call (maxMissingFrames >= 1) every live track
\* has 0 <= missingFrames < maxMissingFrames, and the tracks the call
\* matched or spawned have missingFrames 0.
C25_StreakRange ==
    \A i \in 1 .. Len(trace) :
        IsUpdate(i) =>
            /\ \A r \in 1 .. Len(trace[i].returned) :
                  LET track == trace[i].returned[r]
                  IN  /\ 0 <= track.missingFrames
                      /\ track.missingFrames < Limit(i)
                      /\ track.id \in MatchedIds(i) => track.missingFrames = 0
            /\ \A r \in 1 .. Len(BornAt(i)) : BornAt(i)[r].missingFrames = 0
            /\ i = Len(trace) =>
                  \A r \in 1 .. Len(tracks[trace[i].tracker]) :
                      LET track == tracks[trace[i].tracker][r]
                      IN  0 <= track.missingFrames /\ track.missingFrames < Limit(i)

\* the last call matched a track, spawned one and kept one that has now
\* missed a frame
C25_Witness ==
    /\ trace # <<>>
    /\ IsUpdate(Len(trace))
    /\ Len(LastCall.accepted) = 1
    /\ Len(BornAt(Len(trace))) = 1
    /\ \E r \in 1 .. Len(tracks[1]) : tracks[1][r].missingFrames = 1

\* --------------------------------------------------------------- C26
\* C26: matching is maximal. In every update call, each pair of a track and
\* a detection with IoU >= iouThreshold (against the predicted box) has its
\* track or its detection in an accepted pair; so a detection that becomes
\* a new track has every track it overlaps that much matched to another
\* detection.
C26_Maximal ==
    \A i \in 1 .. Len(trace) :
        IsUpdate(i) =>
            \A c \in Candidates(i) :
                \/ \E a \in AcceptedPairs(i) : a[1] = c[1]
                \/ \E a \in AcceptedPairs(i) : a[2] = c[2]

\* two pairs are accepted in one call; and in some call a detection that
\* overlaps a track enough becomes a new track, the track being taken
C26_Witness ==
    /\ \E i \in 1 .. Len(trace) : Cardinality(AcceptedPairs(i)) = 2
    /\ \E j \in 1 .. Len(trace) : \E c \in Candidates(j) :
          /\ \A a \in AcceptedPairs(j) : a[2] # c[2]
          /\ \E a \in AcceptedPairs(j) : a[1] = c[1]

\* --------------------------------------------------------------- C27
\* the places of the returned list of call i whose track has missingFrames 0
Fresh(i) ==
    { r \in 1 .. Len(trace[i].returned) : trace[i].returned[r].missingFrames = 0 }

\* C27: every detection is represented exactly once. The list returned by
\* an update call with M detections holds exactly M tracks with
\* missingFrames 0, one per detection and with that detection's box; the
\* other tracks are the surviving unmatched tracks, with missingFrames >= 1;
\* the length of the list is M plus the number of survivors.
C27_OncePerDetection ==
    \A i \in 1 .. Len(trace) :
        IsUpdate(i) =>
            LET M == Len(trace[i].input)
                rest == { r \in 1 .. Len(trace[i].returned) : r \notin Fresh(i) }
            IN  /\ Cardinality(Fresh(i)) = M
                /\ \E f \in [1 .. M -> Fresh(i)] :
                      /\ \A d, e \in 1 .. M : d # e => f[d] # f[e]
                      /\ \A d \in 1 .. M :
                            trace[i].returned[f[d]].bbox = trace[i].input[d].bbox
                /\ \A r \in rest : trace[i].returned[r].missingFrames >= 1
                /\ { trace[i].returned[r].id : r \in rest }
                      = { id \in IdsOf(trace[i].before) :
                            id \notin MatchedIds(i) /\ id \notin Left(i) }
                /\ Len(trace[i].returned) = M + Len(AgedSurvivors(i))

\* two detections on different boxes, one matched to a track and one that
\* becomes a track, and a track that survives unmatched
C27_Witness ==
    \E i \in 1 .. Len(trace) :
        /\ IsUpdate(i)
        /\ Len(trace[i].input) = 2
        /\ trace[i].input[1].bbox # trace[i].input[2].bbox
        /\ Len(trace[i].accepted) = 1
        /\ Len(trace[i].returned) = 3

\* --------------------------------------------------------------- C28
\* C28: stale-frame effect. A track that an update call leaves unmatched
\* and keeps is returned with its box top-left advanced by its velocity and
\* its missingFrames raised by one, and with the id, velocity, width,
\* height, class, score and colour it had; so a track unmatched for k calls
\* in a row and kept has drifted by k times its velocity.
C28_StaleFrame ==
    /\ \A i \in 1 .. Len(trace) : \A b \in 1 .. Len(trace[i].before) :
          LET old == trace[i].before[b]
          IN  ( /\ IsUpdate(i)
                /\ old.id \notin MatchedIds(i)
                /\ old.id \in IdsOf(trace[i].returned) ) =>
                 TrackOf(trace[i].returned, old.id) =
                     [old EXCEPT !.bbox = Moved(old.bbox, old.velocity),
                                 !.missingFrames = old.missingFrames + 1]
    /\ \A i \in 1 .. Len(trace) : \A k \in 1 .. (Len(trace) - i) :
          \A id \in IdsOf(trace[i].returned) :
             ( /\ IsUpdate(i)
               /\ Unmatched(i, k, id)
               /\ id \in IdsOf(trace[i + k].returned) ) =>
                LET start == TrackOf(trace[i].returned, id)
                    end == TrackOf(trace[i + k].returned, id)
                IN  end.bbox = <<start.bbox[1] + k * start.velocity[1],
                                 start.bbox[2] + k * start.velocity[2],
                                 start.bbox[3], start.bbox[4]>>

\* a track with a velocity in x and in y is left unmatched by two calls in
\* a row and kept
C28_Witness ==
    \E i \in 1 .. Len(trace) : \E id \in IdsOf(trace[i].returned) :
        /\ IsUpdate(i)
        /\ i + 2 <= Len(trace)
        /\ Unmatched(i, 2, id)
        /\ id \in IdsOf(trace[i + 2].returned)
        /\ TrackOf(trace[i].returned, id).velocity[1] # 0
        /\ TrackOf(trace[i].returned, id).velocity[2] # 0
        /\ TrackOf(trace[i + 2].returned, id).missingFrames = 2

\* --------------------------------------------------------------- C29
\* the boxes of a list of tracks or detections, nothing else
BoxesOf(recs) == [r \in 1 .. Len(recs) |-> recs[r].bbox]

C30_NoStaleDetections ==
    \A i, j \in 1 .. Len(trace) :
        (i < j /\ trace[i].op = "reset" /\ IsUpdate(j))
            => trace[j].frame > trace[i].given

====
